---- MODULE Spec2Model ----
(***************************************************************************)
(* Model of src/roulette.py: the Roulette class of coffee_roulette.        *)
(*                                                                         *)
(* The run follows the script at the end of the file: the roster is built  *)
(* by add_participant (one call per row of the participant file), then     *)
(* generate_pairs is called once, then send_participants_email is called   *)
(* once.  Participants are namedtuples compared by value; the k-th row     *)
(* read carries the name k (k = 0, 1, ...), so the rows are pairwise       *)
(* distinct and a name is also the row's index in the roster.              *)
(***************************************************************************)
EXTENDS Integers, Sequences, FiniteSets

VARIABLES
    participants,   \* self.participants
    weeks,          \* self.weeks
    pairings,       \* self.pairings
    send_email,     \* self.config["send_email"]
    pc,             \* position in the script: "roster", "generated", "done"
    error,          \* the exception that ended a call, "none" otherwise
    formed,         \* per week: weekly_pairs as it stands at line 89
    picked,         \* per week of an odd roster: random_pair (line 93)
    week_num,       \* argument of send_participants_email, NoWeek before the call
    week_num_pairs, \* local of send_participants_email (line 215)
    lookups,        \* every list `people` computed at line 226, in order
    outbox          \* every message handed to ezgmail.send, in order

vars == <<participants, weeks, pairings, send_email, pc, error, formed, picked,
          week_num, week_num_pairs, lookups, outbox>>

----------------------------------------------------------------------------
(* Bounds of the model *)

MaxParticipants == 6

MaxNonEmail == 1

----------------------------------------------------------------------------
(* Data types *)

None == [name |-> -1, contact |-> "none"]

Person(name, contact) == [name |-> name, contact |-> contact]

Connection(person_1, person_2, person_3) == <<person_1, person_2, person_3>>

Contacts == {"email", "other"}

NoWeek == -1000

WeekNums == (0 - (MaxParticipants + 1)) .. (MaxParticipants + 1)

\* Python's 0-based subscript on a list, for an index known to be in range
At(list, j) == list[j + 1]

\* Python's a % b for b > 0: the result is in 0..b-1 also for negative a
PyMod(a, b) == ((a % b) + b) % b

----------------------------------------------------------------------------
(* add_participant *)

\* add_participant without line 106
NextWeeksStale(w) == w

NextWeeks(w) == w + 1

is_email(contact) == contact = "email"

NonEmailCount(list) == Cardinality({j \in DOMAIN list : ~is_email(list[j].contact)})

add_participant(person) ==
    /\ pc = "roster"
    /\ Len(participants) < MaxParticipants
    /\ NonEmailCount(Append(participants, person)) <= MaxNonEmail
    /\ participants' = Append(participants, person)
    /\ weeks' = NextWeeks(weeks)
    /\ UNCHANGED <<pairings, send_email, pc, error, formed, picked,
                   week_num, week_num_pairs, lookups, outbox>>

read_participants_row ==
    \E contact \in Contacts :
        add_participant(Person(Len(participants), contact))

----------------------------------------------------------------------------
(* generate_pairs *)

\* line 82 rotating over all n seats instead of n - 1
Person1IndexModN(i, k, n) == PyMod(i + k, n)

Person1Index(i, k, n) == PyMod(i + k, n - 1)

\* line 83 rotating over all n seats instead of n - 1
Person2IndexModN(i, k, n) == PyMod(i - k, n)

Person2Index(i, k, n) == PyMod(i - k, n - 1)

\* line 92 rotating over all n seats instead of n - 1
MissingIndexModN(i, n) == PyMod((n \div 2) + i, n)

MissingIndex(i, n) == PyMod((n \div 2) + i, n - 1)

\* weekly_pairs at line 89 for week i: the "infinite" pairing, then one pair per k
WeeklyPairs(P, i) ==
    LET n == Len(P)
        infinite == Connection(At(P, i), At(P, n - 1), None)
        rest == [k \in 1 .. ((n \div 2) - 1) |->
                    Connection(At(P, Person1Index(i, k, n)),
                               At(P, Person2Index(i, k, n)), None)]
    IN  IF n \div 2 > 1 THEN <<infinite>> \o rest ELSE <<infinite>>

\* list.remove(x): drops the first element equal to x
RECURSIVE Remove(_, _)
Remove(list, x) ==
    IF list = <<>> THEN <<>>
    ELSE IF Head(list) = x THEN Tail(list)
    ELSE <<Head(list)>> \o Remove(Tail(list), x)

\* lines 90-97: the random pair becomes a triple, appended at the end
Promote(weekly_pairs, random_pair, missing_person) ==
    LET new_triple == Connection(random_pair[1], random_pair[2], missing_person)
    IN  Remove(Append(weekly_pairs, new_triple), random_pair)

WeekRange(n) == 0 .. (n - 1)

generate_pairs ==
    /\ pc = "roster"
    /\ LET n == Len(participants) IN
         IF n = 1
         THEN \* week 0: line 92 divides by n - 1 = 0 before anything is appended
              /\ error' = "ZeroDivisionError"
              /\ pc' = "done"
              /\ UNCHANGED <<pairings, formed, picked>>
         ELSE IF n % 2 = 1
         THEN \E choice \in [WeekRange(n) -> 1 .. (n \div 2)] :
                /\ formed' = [w \in 1 .. n |-> WeeklyPairs(participants, w - 1)]
                /\ picked' = [w \in 1 .. n |->
                                WeeklyPairs(participants, w - 1)[choice[w - 1]]]
                /\ pairings' = pairings \o
                     [w \in 1 .. n |->
                        Promote(WeeklyPairs(participants, w - 1),
                                WeeklyPairs(participants, w - 1)[choice[w - 1]],
                                At(participants, MissingIndex(w - 1, n)))]
                /\ pc' = "generated"
                /\ UNCHANGED error
         ELSE /\ formed' = [w \in 1 .. n |-> WeeklyPairs(participants, w - 1)]
              /\ pairings' = pairings \o
                     [w \in 1 .. n |-> WeeklyPairs(participants, w - 1)]
              /\ pc' = "generated"
              /\ UNCHANGED <<error, picked>>
    /\ UNCHANGED <<participants, weeks, send_email, week_num, week_num_pairs,
                   lookups, outbox>>

----------------------------------------------------------------------------
(* send_participants_email *)

\* self.pairings[week_num - 1] with Python's subscript rules: a negative
\* subscript j counts from the end (j + len), and only subscripts outside
\* -len .. len-1 raise IndexError.  InRange tells whether the subscript is
\* accepted, Resolve gives the 0-based position it denotes.
InRange(j, len) == (0 - len) <= j /\ j <= len - 1

Resolve(j, len) == IF j < 0 THEN j + len ELSE j

\* line 226
People(pair, person) == SelectSeq(pair, LAMBDA p : p # person /\ p # None)

\* the (pair, person) visits of lines 219-224 that reach line 225, in order
RECURSIVE Visits(_)
Visits(week) ==
    IF week = <<>> THEN <<>>
    ELSE LET pair == Head(week)
             inPair == SelectSeq(pair, LAMBDA p : p # None /\ is_email(p.contact))
         IN  [j \in 1 .. Len(inPair) |-> [pair |-> pair, person |-> inPair[j]]]
             \o Visits(Tail(week))

Lookup(visit) ==
    [pair |-> visit.pair, person |-> visit.person,
     people |-> People(visit.pair, visit.person)]

\* lines 227-231: people[0] is read on either branch, people[1] on the second;
\* the second branch is taken for every length other than 1
MessageFails(people) == Len(people) # 1 /\ Len(people) < 2

\* number of visits completed before the first failing one (all, if none fails)
RECURSIVE Completed(_)
Completed(visits) ==
    IF visits = <<>> THEN 0
    ELSE IF MessageFails(Lookup(Head(visits)).people) THEN 0
    ELSE 1 + Completed(Tail(visits))

send_participants_email(wn) ==
    /\ pc = "generated"
    /\ pc' = "done"
    /\ IF ~send_email
       THEN UNCHANGED <<error, week_num, week_num_pairs, lookups, outbox>>
       ELSE /\ week_num' = wn
            /\ IF ~InRange(wn - 1, Len(pairings))
               THEN /\ error' = "IndexError: Invalid week number"
                    /\ UNCHANGED <<week_num_pairs, lookups, outbox>>
               ELSE LET found == At(pairings, Resolve(wn - 1, Len(pairings)))
                        visits == Visits(found)
                        done == Completed(visits)
                    IN  /\ week_num_pairs' = found
                        /\ outbox' = [j \in 1 .. done |-> Lookup(visits[j])]
                        /\ IF done < Len(visits)
                           THEN /\ lookups' = [j \in 1 .. (done + 1) |-> Lookup(visits[j])]
                                /\ error' = "IndexError: list index out of range"
                           ELSE /\ lookups' = [j \in 1 .. done |-> Lookup(visits[j])]
                                /\ UNCHANGED error
    /\ UNCHANGED <<participants, weeks, pairings, send_email, formed, picked>>

send_email_call == \E wn \in WeekNums : send_participants_email(wn)

----------------------------------------------------------------------------

Init ==
    /\ participants = <<>>
    /\ weeks = 0
    /\ pairings = <<>>
    /\ send_email \in BOOLEAN
    /\ pc = "roster"
    /\ error = "none"
    /\ formed = <<>>
    /\ picked = <<>>
    /\ week_num = NoWeek
    /\ week_num_pairs = <<>>
    /\ lookups = <<>>
    /\ outbox = <<>>

Next ==
    \/ read_participants_row
    \/ generate_pairs
    \/ send_email_call

Spec == Init /\ [][Next]_vars

----------------------------------------------------------------------------
(* Vocabulary of the properties *)

N == Len(participants)

\* generate_pairs has been called (it returned or raised)
GenCalled == pc # "roster"

\* generate_pairs returned normally
GenReturned == GenCalled /\ error # "ZeroDivisionError"

IsPair(c) == c[3] = None

IsTriple(c) == c[3] # None

\* roster indices held by a Connection (a participant's name is its index)
Members(c) == {c[s].name : s \in {s \in 1 .. 3 : c[s] # None}}

\* number of non-absent slots of Connection c that hold roster index x
SlotsOf(c, x) == Cardinality({s \in 1 .. 3 : c[s] # None /\ c[s].name = x})

\* number of slots over a whole week that hold roster index x
RECURSIVE Occurrences(_, _)
Occurrences(week, x) ==
    IF week = <<>> THEN 0 ELSE SlotsOf(Head(week), x) + Occurrences(Tail(week), x)

Range(list) == {list[j] : j \in DOMAIN list}

\* the weeks (1-based) in which roster indices a and b share a Connection
WeeksTogether(a, b) ==
    {w \in DOMAIN pairings : \E c \in Range(pairings[w]) : {a, b} \subseteq Members(c)}

\* a week as a set of sets of roster indices
Groups(week) == {Members(c) : c \in Range(week)}

----------------------------------------------------------------------------
(* C1: for even N >= 2 every generated week is exactly N/2 pairs that
   partition the roster: each index 0..N-1 is in exactly one Connection of the
   week and no Connection holds one participant in both slots. *)
C1_EvenWeeksPartition ==
    (GenCalled /\ N >= 2 /\ N % 2 = 0) =>
        /\ Len(pairings) = N
        /\ \A w \in DOMAIN pairings :
              /\ Len(pairings[w]) = N \div 2
              /\ \A c \in Range(pairings[w]) : IsPair(c) /\ c[1] # c[2]
              /\ \A x \in 0 .. (N - 1) : Occurrences(pairings[w], x) = 1

(* C2: for odd N >= 3 every generated week holds exactly one triple and
   (N-1)/2 - 1 pairs, and every index 0..N-1 appears exactly once in it. *)
C2_OddWeeksCover ==
    (GenCalled /\ N >= 3 /\ N % 2 = 1) =>
        /\ Len(pairings) = N
        /\ \A w \in DOMAIN pairings :
              /\ Cardinality({j \in DOMAIN pairings[w] : IsTriple(pairings[w][j])}) = 1
              /\ Cardinality({j \in DOMAIN pairings[w] : IsPair(pairings[w][j])})
                    = ((N - 1) \div 2) - 1
              /\ \A x \in 0 .. (N - 1) : Occurrences(pairings[w], x) = 1

(* C3: generate_pairs on a roster of fewer than 2 participants ends in an
   invalid-input error raised by validation, before any pairing arithmetic,
   and leaves pairings empty. *)
C3_SmallRosterRejected ==
    (GenCalled /\ N < 2) =>
        /\ error # "none"
        /\ error # "ZeroDivisionError"
        /\ pairings = <<>>

(* C4: after N >= 2 calls of add_participant and one call of generate_pairs,
   len(pairings) = weeks = len(participants) = N, so every index of
   range(weeks) resolves to a generated week. *)
C4_WeeksEqualRoster ==
    (GenCalled /\ N >= 2) =>
        /\ Len(pairings) = weeks
        /\ weeks = N
        /\ \A week \in 0 .. (weeks - 1) : (week + 1) \in DOMAIN pairings

C4_Witness == pc = "generated" /\ N >= 3 /\ Len(pairings) = N

(* C5: for even N >= 2, over the N generated weeks every unordered pair of
   distinct participants shares a Connection in at least one week and in at
   most two weeks. *)
C5_EvenCoverage ==
    (GenCalled /\ N >= 2 /\ N % 2 = 0) =>
        \A a \in 0 .. (N - 1) : \A b \in (a + 1) .. (N - 1) :
            Cardinality(WeeksTogether(a, b)) \in {1, 2}

C5_Witness ==
    /\ pc = "generated" /\ N >= 4 /\ N % 2 = 0
    /\ \E a \in 0 .. (N - 1) : \E b \in (a + 1) .. (N - 1) :
          Cardinality(WeeksTogether(a, b)) = 2
    /\ \E a \in 0 .. (N - 1) : \E b \in (a + 1) .. (N - 1) :
          Cardinality(WeeksTogether(a, b)) = 1

(* C6: with sending enabled and a Schedule generated, a week number outside
   1..weeks raises the lookup error and sends nothing; a week number w in
   1..weeks resolves to week w-1 of the Schedule. *)
C6_WeekLookup ==
    (send_email /\ N >= 2 /\ week_num # NoWeek) =>
        /\ week_num \notin 1 .. weeks =>
              error = "IndexError: Invalid week number" /\ outbox = <<>>
        /\ week_num \in 1 .. weeks =>
              week_num_pairs = At(pairings, week_num - 1)

(* C7 as stated: for even N, week i is the set of pairs
   {(i+k) mod N, (i-k) mod N}, k in 0..N/2-1, the self-pair of k = 0 being
   redirected to {i, (i + N/2) mod N}; for [A,B,C,D] week 1 is {A-C, B-D}
   and week 2 is {B-D, C-A}. *)
C7_StatedWeeks ==
    (GenCalled /\ N >= 2 /\ N % 2 = 0) =>
        /\ Len(pairings) = N
        /\ \A i \in 0 .. (N - 1) :
              Groups(At(pairings, i)) =
                 {{i, (i + (N \div 2)) % N}}
                 \cup {{(i + k) % N, (i - k + N) % N} : k \in 1 .. ((N \div 2) - 1)}
        /\ N = 4 => /\ Groups(At(pairings, 0)) = {{0, 2}, {1, 3}}
                    /\ Groups(At(pairings, 1)) = {{1, 3}, {2, 0}}

(* C7 amended: for even N >= 2, week i is the list whose first Connection is
   the pair (i, N-1) and whose k-th further Connection, k in 1..N/2-1, is the
   pair ((i+k) mod (N-1), (i-k) mod (N-1)); for [A,B,C,D] week 1 is
   [A-D, B-C] and week 2 is [B-D, C-A]. *)
C7_AnchoredWeeks ==
    (GenCalled /\ N >= 2 /\ N % 2 = 0) =>
        /\ Len(pairings) = N
        /\ \A i \in 0 .. (N - 1) :
              LET week == At(pairings, i) IN
              /\ Len(week) = N \div 2
              /\ \A c \in Range(week) : IsPair(c)
              /\ week[1][1].name = i /\ week[1][2].name = N - 1
              /\ \A k \in 1 .. ((N \div 2) - 1) :
                    /\ week[k + 1][1].name = (i + k) % (N - 1)
                    /\ week[k + 1][2].name = (i - k + (N - 1)) % (N - 1)
        /\ N = 4 => /\ <<Members(pairings[1][1]), Members(pairings[1][2])>>
                          = <<{0, 3}, {1, 2}>>
                    /\ <<Members(pairings[2][1]), Members(pairings[2][2])>>
                          = <<{1, 3}, {2, 0}>>

C7_Witness == pc = "generated" /\ N = 4 /\ Len(pairings) = 4

(* C8: for a roster of exactly 2 participants generate_pairs produces 2
   identical weeks, each the single pair of the two distinct participants. *)
C8_TwoParticipants ==
    (GenCalled /\ N = 2) =>
        /\ Len(pairings) = 2
        /\ Groups(pairings[1]) = Groups(pairings[2])
        /\ \A w \in DOMAIN pairings :
              /\ Len(pairings[w]) = 1
              /\ IsPair(pairings[w][1])
              /\ Members(pairings[w][1]) = {0, 1}

(* C9: for every week of a generated Schedule (N >= 2) and every non-absent
   slot of every Connection, the list of others built by
   send_participants_email has one member for a pair and two for a triple and
   never holds the participant notified, so building a message never indexes
   an empty list. *)
C9_OthersList ==
    (GenCalled /\ N >= 2) =>
        /\ \A w \in DOMAIN pairings : \A c \in Range(pairings[w]) :
              \A s \in 1 .. 3 :
                 c[s] # None =>
                    /\ Len(People(c, c[s])) = (IF IsPair(c) THEN 1 ELSE 2)
                    /\ c[s] \notin Range(People(c, c[s]))
        /\ \A j \in DOMAIN lookups :
              Len(lookups[j].people) = (IF IsPair(lookups[j].pair) THEN 1 ELSE 2)
        /\ error # "IndexError: list index out of range"

(* C10: for odd N >= 3, every week i and every outcome of the random choice:
   the participant at index ((N-1)/2 + i) mod (N-1) is in none of the pairs
   formed for the week before promotion; after promotion the week holds one
   triple, whose first two members are the chosen pair and whose third is
   that participant; the chosen pair is no longer in the week's list and
   every other pair of the week is unchanged. *)
C10_Promotion ==
    (GenCalled /\ N >= 3 /\ N % 2 = 1) =>
        /\ Len(pairings) = N /\ Len(formed) = N /\ Len(picked) = N
        /\ \A i \in 0 .. (N - 1) :
              LET missing == (((N - 1) \div 2) + i) % (N - 1)
                  before == At(formed, i)
                  chosen == At(picked, i)
                  after == At(pairings, i)
                  triples == {j \in DOMAIN after : IsTriple(after[j])}
              IN  /\ \A c \in Range(before) : IsPair(c) /\ missing \notin Members(c)
                  /\ chosen \in Range(before)
                  /\ Cardinality(triples) = 1
                  /\ \A j \in triples :
                        after[j] = <<chosen[1], chosen[2], At(participants, missing)>>
                  /\ chosen \notin Range(after)
                  /\ Len(after) = Len(before)
                  /\ \A c \in Range(before) : c # chosen => c \in Range(after)
                  /\ \A c \in Range(after) : IsPair(c) => c \in Range(before)

C10_Witness ==
    /\ pc = "generated" /\ N >= 5 /\ N % 2 = 1
    /\ \E i \in 0 .. (N - 1) : At(picked, i) # At(formed, i)[1]
    /\ \E i \in 0 .. (N - 1) : At(picked, i) = At(formed, i)[1]

====
